---------------------------- MODULE Spec2Model ----------------------------
(***************************************************************************)
(* A model of ringbuf-c: an array backed circular queue of fixed-size      *)
(* elements over caller-owned storage (src/ringbuf.c, src/ringbuf.h), and  *)
(* of the way its callers drive it (src/ringbuf_test.c).                   *)
(*                                                                         *)
(* The storage is modelled byte by byte: slot i of the buffer is the       *)
(* elem_sz bytes at offsets elem_sz*i .. elem_sz*i + elem_sz - 1.          *)
(***************************************************************************)
EXTENDS Integers, Sequences, FiniteSets, TLC

\* ------------------------------------------------------------------ bounds

\* Largest n_elem a caller passes to ringbuf_init.
MaxCap == 3

\* Largest elem_sz (bytes) a caller passes to ringbuf_init.
MaxElemSz == 2

\* Width (bits) of size_t in the model; unsigned arithmetic wraps at 2^SizeBits.
SizeBits == 8

\* Byte values the caller's data is drawn from (0 is the NUL byte).
Byte == {0, 1}

\* Size (bytes) of the caller's storage array.
MemSize == 4

\* Calls each thread makes.
MaxCalls == 2

SizeMod == 2 ^ SizeBits

NULL == "NULL"

VARIABLES
    buf,        \* rb->buf: NULL or the name of the storage array
    capacity,   \* rb->capacity
    elem_sz,    \* rb->elem_sz
    head,       \* rb->head
    tail,       \* rb->tail
    count,      \* rb->count
    elem_copy,  \* rb->ops.elem_copy: NULL or "copy_my_struct"
    elem_print, \* rb->ops.elem_print: NULL or "elem_print"
    mem,        \* the bytes of the caller's storage array, by offset
    my_elem,    \* the caller's element variable (source of adds, destination of removes)
    op,         \* the last call made
    args,       \* its arguments: <<rb, buf, n_elem, elem_sz>>, <<rb, elem>> or <<rb>>
    ret,        \* its return value
    out,        \* the elements handed to elem_print during the last call, in order
    ncopy,      \* the number of elem_copy invocations during the last call
    q,          \* the elements accepted and not yet removed, oldest first, as stored
    trap,       \* TRUE once a modulo by zero (undefined behaviour) has been executed
    pc,         \* position of the test program ("free": calls in any order)
    i,          \* the test program's loop counter
    vals,       \* the values the test program's successful adds passed, in order
    got,        \* the values the test program's removes delivered, in order
    rb2,        \* a second buffer and caller, given the same calls, whose
                \* elem_print is never installed: its fields, storage, element
                \* variable and last return value
    run,        \* the run of consecutive adds or removes a caller is in: its
                \* kind, the count k it started from, the calls n made so far
    thr,        \* per thread: where it is in its call (pc), the call's kind,
                \* the element it adds (src), its local tp / hp (loc), the
                \* value it has read and not yet written back (tmp), the
                \* element it removed (dst), the calls it may still make (left)
    net,        \* the threads' successful adds minus their successful removes
    serial,     \* TRUE when the threads' callers serialize their calls
    reinit      \* TRUE once ringbuf_init has succeeded again on the buffer in use

rbFields == <<buf, capacity, elem_sz, head, tail, count, elem_copy, elem_print>>

\* What a call sets: the call record and the callbacks' trace.
callVars == <<op, args, ret, out, ncopy>>

\* The test program's own variables.
testVars == <<pc, i, vals, got>>

\* The threads' variables.
raceVars == <<thr, net, serial>>

vars == <<rbFields, mem, my_elem, callVars, q, trap, testVars, rb2, run, raceVars,
         reinit>>

\* ----------------------------------------------------------------- helpers

\* All elements of sz bytes.
Element(sz) == [1..sz -> Byte]

\* An element of sz zero bytes.
Zeros(sz) == [k \in 1..sz |-> 0]

\* The sz bytes of storage starting at offset p, as an element.
ReadBytes(m, p, sz) == [k \in 1..sz |-> m[p + k - 1]]

\* memcpy(p, e, sz) / memset(p, 0, sz) on the storage: bytes p..p+sz-1 replaced.
WriteBytes(m, p, e) ==
    [a \in DOMAIN m |-> IF a >= p /\ a < p + Len(e) THEN e[a - p + 1] ELSE m[a]]

\* size_t arithmetic.
SizeT(x) == x % SizeMod

Min(a, b) == IF a <= b THEN a ELSE b

\* ------------------------------------------------------- caller's callbacks

\* copy_my_struct of the test program, on a struct scaled to the element size:
\* byte 1 is the id, the remaining bytes are the name array.  The id is
\* assigned; the name is copied by snprintf(dst, size, "%s", src): at most
\* size - 1 characters up to the first NUL, then a NUL; the bytes of dst after
\* that NUL keep their old values.
copy_my_struct(dst, src) ==
    LET n == Len(src)
        size == n - 1
        nuls == {j \in 0..(size - 1) : src[2 + j] = 0}
        strlen == IF nuls = {} THEN size
                  ELSE CHOOSE j \in nuls : \A k \in nuls : j <= k
        ncpy == Min(strlen, size - 1)
    IN  [k \in 1..n |->
            IF k = 1 THEN src[1]
            ELSE IF k - 2 < ncpy THEN src[k]
            ELSE IF k - 2 = ncpy THEN 0
            ELSE dst[k]]

\* ------------------------------------------------------------- ringbuf.c

\* ringbuf_init's argument check: -1 if rb or buf are NULL.
InitRejects(rb, b) == rb = NULL \/ b = NULL

\* Variant: full decided by head == tail instead of the count.
ringbuf_full_headtail == IF head = tail THEN 1 ELSE 0

\* Variant: full decided by count > capacity (never true of a buffer in range).
ringbuf_full_never == IF count > capacity THEN 1 ELSE 0

\* ringbuf_full: the C int result of rb->count == rb->capacity.
ringbuf_full == IF count = capacity THEN 1 ELSE 0

\* Variant: empty decided by head == tail instead of the count.
ringbuf_empty_headtail == IF head = tail THEN 1 ELSE 0

\* Variant: empty decided by the capacity field instead of the count.
ringbuf_empty_capacity == IF 0 = capacity THEN 1 ELSE 0

\* ringbuf_empty: the C int result of 0 == rb->count.
ringbuf_empty == IF 0 = count THEN 1 ELSE 0

\* ringbuf_print_elems on a buffer with storage m, head h and count c: the
\* elements handed to the print callback, from head to tail.
ringbuf_print_elems(m, h, c) ==
    [k \in 1..c |-> ReadBytes(m, elem_sz * ((h + (k - 1)) % capacity), elem_sz)]

\* Variant: the write offset taken from count instead of tail.
TailOffset_count == elem_sz * count

\* Variant: the write offset taken from head instead of tail.
TailOffset_head == elem_sz * head

\* tp = (char*)rb->buf + (rb->elem_sz * rb->tail), as an offset into the storage.
TailOffset == elem_sz * tail

\* Variant: the read offset is that of slot 0 (hp = rb->buf).
HeadOffset_base == elem_sz * 0

\* Variant: the read offset taken from tail instead of head.
HeadOffset_tail == elem_sz * tail

\* hp = (char*)rb->buf + (rb->elem_sz * rb->head), as an offset into the storage.
HeadOffset == elem_sz * head

\* Variant: the index stops at the last slot instead of wrapping to 0.
NextIndex_nowrap(x) ==
    IF capacity = 0 THEN 0..MaxCap
    ELSE {IF x + 1 = capacity THEN x ELSE x + 1}

\* Variant: the index wraps one slot late (modulo capacity + 1).
NextIndex_offbyone(x) ==
    IF capacity = 0 THEN 0..MaxCap ELSE {SizeT(x + 1) % (capacity + 1)}

\* The values (x + 1) % rb->capacity can take: the remainder, or, when capacity
\* is 0, whatever the build produces for the undefined modulo by zero.
NextIndex(x) == IF capacity = 0 THEN 0..MaxCap ELSE {SizeT(x + 1) % capacity}

\* Variant: the memset sits inside the debug block that runs only with a print
\* callback installed.
ClearedHead_inprint(elem) ==
    IF elem_print # NULL THEN Zeros(elem_sz)
    ELSE ReadBytes(mem, elem_sz * head, elem_sz)

\* Variant: the memset sits inside the "if (elem)" block.
ClearedHead_ifdest(elem) ==
    IF elem # NULL THEN Zeros(elem_sz)
    ELSE ReadBytes(mem, elem_sz * head, elem_sz)

\* Variant: the memset is missing.
ClearedHead_never(elem) == ReadBytes(mem, elem_sz * head, elem_sz)

\* The bytes at hp after memset(hp, 0, rb->elem_sz) in ringbuf_remove_head(rb,
\* elem): zeros, whatever elem is.
ClearedHead(elem) == Zeros(elem_sz)

\* Variant: the installed callback is ignored and the bytes are copied.
CopyElem_memcpy(dst, src) == src

\* What the copy step writes to dst given src: the callback's effect when one
\* is installed, else the bytes of src (memcpy).
CopyElem(dst, src) ==
    IF elem_copy # NULL THEN copy_my_struct(dst, src) ELSE src

\* Variant: the full check is missing.
AddPath_nofullcheck(elem) == IF elem = NULL THEN "noop" ELSE "store"

\* Variant: the full check comes before the NULL check.
AddPath_fullfirst(elem) ==
    IF ringbuf_full # 0 THEN "full"
    ELSE IF elem = NULL THEN "noop"
    ELSE "store"

\* The path ringbuf_add_tail takes: the NULL check, then the full check.
AddPath(elem) ==
    IF elem = NULL THEN "noop"
    ELSE IF ringbuf_full # 0 THEN "full"
    ELSE "store"

\* Variant: the empty check is missing.
RemovePath_nocheck == "take"

\* The path ringbuf_remove_head takes: the empty check.
RemovePath == IF ringbuf_empty # 0 THEN "empty" ELSE "take"

\* Variant: ringbuf_init leaves the callbacks as they were.
InitOps_keep == <<elem_copy, elem_print>>

\* The callbacks ringbuf_init leaves installed: none.
InitOps == <<NULL, NULL>>

\* ringbuf_init(rb, buf, n_elem, elem_sz).  The caller's element variable is of
\* the element type, so a change of element size comes with a new (zeroed)
\* element variable.
ringbuf_init(rb, b, n_elem, sz) ==
    /\ ~trap
    /\ op' = "ringbuf_init"
    /\ args' = <<rb, b, n_elem, sz>>
    /\ out' = <<>>
    /\ ncopy' = 0
    /\ UNCHANGED <<mem, trap>>
    /\ IF InitRejects(rb, b)
       THEN /\ ret' = -1
            /\ UNCHANGED <<rbFields, my_elem, q>>
       ELSE /\ buf' = b
            /\ capacity' = n_elem
            /\ elem_sz' = sz
            /\ head' = 0
            /\ tail' = 0
            /\ count' = 0
            /\ elem_copy' = InitOps[1]
            /\ elem_print' = InitOps[2]
            /\ my_elem' = IF sz = elem_sz THEN my_elem ELSE Zeros(sz)
            /\ q' = <<>>
            /\ ret' = 0

\* ringbuf_add_tail(rb, elem), where src is the element elem points to.
ringbuf_add_tail(elem, src) ==
    /\ ~trap
    /\ op' = "ringbuf_add_tail"
    /\ args' = <<"rb", elem>>
    /\ UNCHANGED <<buf, capacity, elem_sz, head, elem_copy, elem_print>>
    /\ IF AddPath(elem) = "noop"
       THEN /\ ret' = 0
            /\ out' = <<>>
            /\ ncopy' = 0
            /\ UNCHANGED <<tail, count, mem, q, trap>>
       ELSE IF AddPath(elem) = "full"
       THEN /\ ret' = -1
            /\ out' = <<>>
            /\ ncopy' = 0
            /\ UNCHANGED <<tail, count, mem, q, trap>>
       ELSE LET stored == CopyElem(ReadBytes(mem, TailOffset, elem_sz), src)
            IN  /\ mem' = WriteBytes(mem, TailOffset, stored)
                /\ ncopy' = IF elem_copy # NULL THEN 1 ELSE 0
                /\ tail' \in NextIndex(tail)
                /\ trap' = (capacity = 0)
                /\ count' = SizeT(count + 1)
                /\ q' = Append(q, stored)
                /\ out' = IF elem_print # NULL /\ ~trap'
                          THEN <<src>> \o ringbuf_print_elems(mem', head, count')
                          ELSE <<>>
                /\ ret' = 0

\* ringbuf_remove_head(rb, elem), where elem is NULL or points to my_elem.
ringbuf_remove_head(elem) ==
    /\ ~trap
    /\ op' = "ringbuf_remove_head"
    /\ args' = <<"rb", elem>>
    /\ UNCHANGED <<buf, capacity, elem_sz, tail, elem_copy, elem_print>>
    /\ IF RemovePath = "empty"
       THEN /\ ret' = -1
            /\ out' = <<>>
            /\ ncopy' = 0
            /\ UNCHANGED <<head, count, mem, my_elem, q, trap>>
       ELSE LET removed == ReadBytes(mem, HeadOffset, elem_sz)
            IN  /\ my_elem' = IF elem # NULL THEN CopyElem(my_elem, removed)
                              ELSE my_elem
                /\ ncopy' = IF elem # NULL /\ elem_copy # NULL THEN 1 ELSE 0
                /\ mem' = WriteBytes(mem, HeadOffset, ClearedHead(elem))
                /\ head' \in NextIndex(head)
                /\ trap' = (capacity = 0)
                /\ count' = SizeT(count - 1)
                /\ q' = IF q = <<>> THEN q ELSE Tail(q)
                /\ out' = IF elem_print = NULL \/ trap' THEN <<>>
                          ELSE (IF elem # NULL THEN <<my_elem'>> ELSE <<>>)
                               \o ringbuf_print_elems(mem', head', count')
                /\ ret' = 0

\* ---------------------------------- the same code without a print callback
\* The functions of ringbuf.c on the second buffer t, whose ops.elem_print is
\* NULL: every "if (rb->ops.elem_print)" block is skipped.  Each gives the set
\* of states the call can leave t in.

\* ringbuf_init(rb, buf, n_elem, elem_sz) on t.
rb2_init(t, rb, b, n_elem, sz) ==
    IF InitRejects(rb, b)
    THEN {[t EXCEPT !.ret = -1]}
    ELSE {[t EXCEPT !.capacity = n_elem, !.elem_sz = sz,
                    !.head = 0, !.tail = 0, !.count = 0,
                    !.elem_copy = NULL,
                    !.my_elem = IF sz = t.elem_sz THEN @ ELSE Zeros(sz),
                    !.ret = 0]}

\* The values (x + 1) % rb->capacity can take on t.
rb2_NextIndex(t, x) ==
    IF t.capacity = 0 THEN 0..MaxCap ELSE {SizeT(x + 1) % t.capacity}

\* The copy step on t: the callback's effect when installed, else memcpy.
rb2_CopyElem(t, dst, src) ==
    IF t.elem_copy # NULL THEN copy_my_struct(dst, src) ELSE src

\* ringbuf_add_tail(rb, elem) on t, where src is the element elem points to.
rb2_add_tail(t, elem, src) ==
    IF elem = NULL THEN {[t EXCEPT !.ret = 0]}
    ELSE IF t.count = t.capacity THEN {[t EXCEPT !.ret = -1]}
    ELSE LET tp == t.elem_sz * t.tail
             stored == rb2_CopyElem(t, ReadBytes(t.mem, tp, t.elem_sz), src)
         IN  {[t EXCEPT !.mem = WriteBytes(@, tp, stored),
                        !.tail = x,
                        !.count = SizeT(@ + 1),
                        !.ret = 0] : x \in rb2_NextIndex(t, t.tail)}

\* ringbuf_remove_head(rb, elem) on t, where elem is NULL or points to t's
\* element variable.
rb2_remove_head(t, elem) ==
    IF 0 = t.count THEN {[t EXCEPT !.ret = -1]}
    ELSE LET hp == t.elem_sz * t.head
             removed == ReadBytes(t.mem, hp, t.elem_sz)
         IN  {[t EXCEPT !.my_elem = IF elem # NULL
                                    THEN rb2_CopyElem(t, @, removed) ELSE @,
                        !.mem = WriteBytes(@, hp, Zeros(t.elem_sz)),
                        !.head = x,
                        !.count = SizeT(@ - 1),
                        !.ret = 0] : x \in rb2_NextIndex(t, t.head)}

\* The call o with arguments a made on t as well: src is the value the caller
\* assigned to its element variable before an add, c the copy callback the
\* caller assigned (the print callback is not assigned on t).
rb2_call(t, o, a, src, c) ==
    IF o = "ringbuf_init" THEN rb2_init(t, a[1], a[2], a[3], a[4])
    ELSE IF o = "ringbuf_add_tail"
    THEN IF a[2] = NULL THEN rb2_add_tail(t, NULL, <<>>)
         ELSE rb2_add_tail([t EXCEPT !.my_elem = src], a[2], src)
    ELSE IF o = "ringbuf_remove_head" THEN rb2_remove_head(t, a[2])
    ELSE IF o = "ringbuf_full"
    THEN {[t EXCEPT !.ret = IF t.count = t.capacity THEN 1 ELSE 0]}
    ELSE IF o = "ringbuf_empty"
    THEN {[t EXCEPT !.ret = IF 0 = t.count THEN 1 ELSE 0]}
    ELSE {[t EXCEPT !.elem_copy = c, !.ret = 0]}

\* The second caller makes the call the first one has just made.
SameCall == rb2' \in rb2_call(rb2, op', args', my_elem', elem_copy')

\* ------------------------------------------------------------ the callers

\* The (n_elem, elem_sz) pairs a caller passes with this storage array: the
\* array must hold at least n_elem * elem_sz bytes.
Geometry == {g \in (0..MaxCap) \X (0..MaxElemSz) : g[1] * g[2] <= MemSize}

\* ringbuf_init(&rb, buf, n_elem, elem_sz) on the struct, fresh or in use.
InitCall ==
    /\ \E g \in Geometry : ringbuf_init("rb", "buf", g[1], g[2])
    /\ UNCHANGED testVars

\* ringbuf_init with a NULL rb or a NULL buf (the sizes play no part in it:
\* the smallest and the largest are passed).
InitNullCall ==
    /\ \E rb \in {NULL, "rb"}, b \in {NULL, "buf"}, g \in {<<0, 0>>, <<MaxCap, 1>>} :
        /\ rb = NULL \/ b = NULL
        /\ ringbuf_init(rb, b, g[1], g[2])
    /\ UNCHANGED testVars

\* The caller's assignment to the callbacks: rb.ops.elem_copy = c;
\* rb.ops.elem_print = p;
AssignOps(c, p) ==
    /\ ~trap
    /\ elem_copy' = c
    /\ elem_print' = p
    /\ op' = "set_ops"
    /\ args' = <<"rb">>
    /\ ret' = 0
    /\ out' = <<>>
    /\ ncopy' = 0
    /\ UNCHANGED <<buf, capacity, elem_sz, head, tail, count, mem, my_elem, q, trap>>

\* The caller installs or removes the callbacks.
SetOps ==
    /\ \E c \in {NULL, "copy_my_struct"}, p \in {NULL, "elem_print"} : AssignOps(c, p)
    /\ UNCHANGED testVars

\* my_elem = v; queue_add(&rb, &my_elem);
AddCall ==
    /\ \E v \in Element(elem_sz) :
        /\ my_elem' = v
        /\ ringbuf_add_tail("my_elem", v)
    /\ UNCHANGED testVars

\* queue_add(&rb, NULL);
AddNullCall ==
    /\ UNCHANGED my_elem
    /\ ringbuf_add_tail(NULL, <<>>)
    /\ UNCHANGED testVars

\* queue_remove(&rb, &my_elem); or queue_remove(&rb, NULL);
RemoveCall ==
    /\ \E elem \in {NULL, "my_elem"} : ringbuf_remove_head(elem)
    /\ UNCHANGED testVars

\* Variant: ringbuf_full assigns where it should compare
\* (return rb->count = rb->capacity).
FullCall_assign ==
    /\ ~trap
    /\ op' = "ringbuf_full"
    /\ args' = <<"rb">>
    /\ count' = capacity
    /\ ret' = capacity
    /\ out' = <<>>
    /\ ncopy' = 0
    /\ UNCHANGED <<buf, capacity, elem_sz, head, tail, elem_copy, elem_print>>
    /\ UNCHANGED <<mem, my_elem, q, trap, testVars>>

\* ringbuf_full(&rb) as a call.
FullCall ==
    /\ ~trap
    /\ op' = "ringbuf_full"
    /\ args' = <<"rb">>
    /\ ret' = ringbuf_full
    /\ out' = <<>>
    /\ ncopy' = 0
    /\ UNCHANGED <<rbFields, mem, my_elem, q, trap, testVars>>

\* ringbuf_empty(&rb) as a call.
EmptyCall ==
    /\ ~trap
    /\ op' = "ringbuf_empty"
    /\ args' = <<"rb">>
    /\ ret' = ringbuf_empty
    /\ out' = <<>>
    /\ ncopy' = 0
    /\ UNCHANGED <<rbFields, mem, my_elem, q, trap, testVars>>

\* The state after a successful ringbuf_init(&rb, buf, g[1], g[2]) of a fresh
\* struct over a storage array of arbitrary contents.
Fresh(g) ==
    /\ capacity = g[1]
    /\ elem_sz = g[2]
    /\ my_elem = Zeros(g[2])
    /\ buf = "buf"
    /\ head = 0
    /\ tail = 0
    /\ count = 0
    /\ elem_copy = NULL
    /\ elem_print = NULL
    /\ mem \in [0..(MemSize - 1) -> Byte]
    /\ rb2 = [capacity |-> g[1], elem_sz |-> g[2], head |-> 0, tail |-> 0,
              count |-> 0, elem_copy |-> NULL, mem |-> mem,
              my_elem |-> Zeros(g[2]), ret |-> 0]
    /\ op = "ringbuf_init"
    /\ args = <<"rb", "buf", g[1], g[2]>>
    /\ ret = 0
    /\ out = <<>>
    /\ ncopy = 0
    /\ q = <<>>
    /\ trap = FALSE
    /\ i = 0
    /\ vals = <<>>
    /\ got = <<>>

\* No run of consecutive calls is being followed.
NoRun == [kind |-> "none", k |-> 0, n |-> 0]

\* The threads of the concurrent scenario: thread 1 produces, thread 2
\* consumes or produces.
Threads == {1, 2}

\* A thread outside any call, with n calls left to make.
Returned(n) ==
    [pc |-> "idle", kind |-> "none", src |-> <<>>, loc |-> 0, tmp |-> 0,
     dst |-> <<>>, left |-> n]

\* One caller only: no thread has started.
SingleCaller ==
    /\ thr = [t \in Threads |-> Returned(MaxCalls)]
    /\ net = 0
    /\ serial = TRUE

\* The calls below are made by a single caller and not followed as runs.
Idle == UNCHANGED <<run, raceVars, reinit>>

Init ==
    /\ \E g \in Geometry : Fresh(g)
    /\ pc = "free"
    /\ run = NoRun
    /\ SingleCaller
    /\ reinit = FALSE

Next ==
    \/ InitCall /\ SameCall /\ Idle
    \/ InitNullCall /\ SameCall /\ Idle
    \/ SetOps /\ SameCall /\ Idle
    \/ AddCall /\ SameCall /\ Idle
    \/ AddNullCall /\ SameCall /\ Idle
    \/ RemoveCall /\ SameCall /\ Idle
    \/ FullCall /\ SameCall /\ Idle
    \/ EmptyCall /\ SameCall /\ Idle

Spec == Init /\ [][Next]_vars

\* --------------------------------------------- the test program's scenario
\* test_queue_char / test_queue_int, for any capacity N >= 1, any element size
\* and any values: fill the buffer, add once more, remove one, add one, drain
\* the buffer, remove once more.  Each call's result is asserted; a failed
\* assert aborts the program.

\* assert(expected == result): where the program goes next.
Asserted(ok, next) == IF ok THEN next ELSE "abort"

\* ringbuf_init(&rb, buf, N, sizeof(buf[0])) has succeeded.
TestInit ==
    /\ \E g \in Geometry : g[1] >= 1 /\ Fresh(g)
    /\ pc = "setup"
    /\ run = NoRun
    /\ SingleCaller
    /\ reinit = FALSE

\* rb.ops.elem_print = &elem_print_int; (the scenario also runs without it)
TestSetup ==
    /\ pc = "setup"
    /\ \E p \in {NULL, "elem_print"} : AssignOps(NULL, p)
    /\ pc' = "fill"
    /\ UNCHANGED <<i, vals, got>>

\* for (i = 0; i < N; i++) { my_elem = v; assert(0 == queue_add(&rb, &my_elem)); }
TestFill ==
    /\ pc = "fill"
    /\ \E v \in Element(elem_sz) :
        /\ my_elem' = v
        /\ ringbuf_add_tail("my_elem", v)
        /\ vals' = IF ret' = 0 THEN Append(vals, v) ELSE vals
    /\ i' = IF i + 1 < capacity THEN i + 1 ELSE 0
    /\ pc' = Asserted(ret' = 0, IF i + 1 < capacity THEN "fill" ELSE "overfill")
    /\ UNCHANGED got

\* assert(-1 == queue_add(&rb, &my_elem)); with my_elem as the loop left it
TestOverfill ==
    /\ pc = "overfill"
    /\ UNCHANGED my_elem
    /\ ringbuf_add_tail("my_elem", my_elem)
    /\ pc' = Asserted(ret' = -1, "remove")
    /\ UNCHANGED <<i, vals, got>>

\* assert(0 == queue_remove(&rb, &my_elem));
TestRemove ==
    /\ pc = "remove"
    /\ ringbuf_remove_head("my_elem")
    /\ got' = IF ret' = 0 THEN Append(got, my_elem') ELSE got
    /\ pc' = Asserted(ret' = 0, "readd")
    /\ UNCHANGED <<i, vals>>

\* my_elem = w; assert(0 == queue_add(&rb, &my_elem));
TestReadd ==
    /\ pc = "readd"
    /\ \E w \in Element(elem_sz) :
        /\ my_elem' = w
        /\ ringbuf_add_tail("my_elem", w)
        /\ vals' = IF ret' = 0 THEN Append(vals, w) ELSE vals
    /\ pc' = Asserted(ret' = 0, "drain")
    /\ UNCHANGED <<i, got>>

\* for (i = 0; i < N; i++) { assert(0 == queue_remove(&rb, &my_elem)); }
TestDrain ==
    /\ pc = "drain"
    /\ ringbuf_remove_head("my_elem")
    /\ got' = IF ret' = 0 THEN Append(got, my_elem') ELSE got
    /\ i' = IF i + 1 < capacity THEN i + 1 ELSE 0
    /\ pc' = Asserted(ret' = 0, IF i + 1 < capacity THEN "drain" ELSE "underflow")
    /\ UNCHANGED vals

\* assert(-1 == queue_remove(&rb, &my_elem));
TestUnderflow ==
    /\ pc = "underflow"
    /\ ringbuf_remove_head("my_elem")
    /\ pc' = Asserted(ret' = -1, "done")
    /\ UNCHANGED <<i, vals, got>>

TestNext ==
    \/ TestSetup /\ SameCall /\ Idle
    \/ TestFill /\ SameCall /\ Idle
    \/ TestOverfill /\ SameCall /\ Idle
    \/ TestRemove /\ SameCall /\ Idle
    \/ TestReadd /\ SameCall /\ Idle
    \/ TestDrain /\ SameCall /\ Idle
    \/ TestUnderflow /\ SameCall /\ Idle

SpecTest == TestInit /\ [][TestNext]_vars

\* ------------------------------------------------ runs of consecutive calls
\* A caller that adds until the buffer refuses, or removes until it refuses,
\* in the manner of the test program's loops but starting from any state:
\* "while (0 == queue_add(&rb, &v)) ...;".  The run a call belongs to is
\* recorded: a call of the same kind right after a successful one continues
\* the run, any other call starts a new one.

\* The run a call of this kind belongs to, given the run before it.
Continued(kind) ==
    IF run.kind = kind /\ ret = 0
    THEN [run EXCEPT !.n = @ + 1]
    ELSE [kind |-> kind, k |-> count, n |-> 1]

\* queue_add(&rb, &my_elem) as part of a run
RunAdd ==
    /\ AddCall /\ SameCall
    /\ run' = Continued("add")
    /\ UNCHANGED <<raceVars, reinit>>

\* queue_remove(&rb, &my_elem) or queue_remove(&rb, NULL) as part of a run
RunRemove ==
    /\ RemoveCall /\ SameCall
    /\ run' = Continued("remove")
    /\ UNCHANGED <<raceVars, reinit>>

\* ringbuf_init between runs
RunInitCall ==
    /\ InitCall /\ SameCall
    /\ run' = NoRun
    /\ UNCHANGED <<raceVars, reinit>>

\* an assignment to the callbacks between runs
RunSetOps ==
    /\ SetOps /\ SameCall
    /\ run' = NoRun
    /\ UNCHANGED <<raceVars, reinit>>

RunNext ==
    \/ RunAdd
    \/ RunRemove
    \/ RunInitCall
    \/ RunSetOps

SpecRun == Init /\ [][RunNext]_vars

\* ------------------------------------------------------ concurrent callers
\* Two threads call ringbuf_add_tail / ringbuf_remove_head on one buffer (no
\* copy callback, elem not NULL).  A call is executed statement by statement,
\* each read and each write of rb->count, rb->tail, rb->head and of a slot
\* being a step of its own, and the threads' steps interleave.  When the
\* callers serialize (serial), a call is entered only while no other call is
\* in progress.

\* What the rest of the model keeps while the threads run.
RaceFrame ==
    UNCHANGED <<buf, capacity, elem_sz, elem_copy, elem_print, my_elem,
                callVars, trap, testVars, rb2, run, serial, reinit>>

\* Variant: the callers' serialization is not honoured.
MayEnter_always(t) == TRUE

\* Whether thread t's caller lets it enter a call now.
MayEnter(t) == serial => \A u \in Threads \ {t} : thr[u].pc = "idle"

\* Thread t returns from its call.
Return(t) == Returned(thr[t].left - 1)

\* Thread t enters ringbuf_add_tail(rb, &v) (the NULL check passes) or
\* ringbuf_remove_head(rb, &dst).
Enter ==
    \E t \in Threads :
        /\ thr[t].pc = "idle" /\ thr[t].left > 0
        /\ MayEnter(t)
        /\ \/ \E v \in Element(elem_sz) :
                thr' = [thr EXCEPT ![t].pc = "full", ![t].kind = "add", ![t].src = v]
           \/ /\ t = 2
              /\ thr' = [thr EXCEPT ![t].pc = "empty", ![t].kind = "remove"]
        /\ UNCHANGED <<head, tail, count, mem, q, net>>
        /\ RaceFrame

\* if (ringbuf_full(rb)) return -1;
AddFull ==
    \E t \in Threads :
        /\ thr[t].pc = "full"
        /\ thr' = IF count = capacity THEN [thr EXCEPT ![t] = Return(t)]
                  ELSE [thr EXCEPT ![t].pc = "tp"]
        /\ UNCHANGED <<head, tail, count, mem, q, net>>
        /\ RaceFrame

\* tp = (char*)rb->buf + (rb->elem_sz * rb->tail);
AddTp ==
    \E t \in Threads :
        /\ thr[t].pc = "tp"
        /\ thr' = [thr EXCEPT ![t].pc = "copy", ![t].loc = elem_sz * tail]
        /\ UNCHANGED <<head, tail, count, mem, q, net>>
        /\ RaceFrame

\* memcpy(tp, elem, rb->elem_sz);
AddCopy ==
    \E t \in Threads :
        /\ thr[t].pc = "copy"
        /\ mem' = WriteBytes(mem, thr[t].loc, thr[t].src)
        /\ thr' = [thr EXCEPT ![t].pc = "rdtail"]
        /\ UNCHANGED <<head, tail, count, q, net>>
        /\ RaceFrame

\* rb->tail = (rb->tail + 1) % rb->capacity; the read of rb->tail
AddReadTail ==
    \E t \in Threads :
        /\ thr[t].pc = "rdtail"
        /\ thr' = [thr EXCEPT ![t].pc = "wrtail", ![t].tmp = tail]
        /\ UNCHANGED <<head, tail, count, mem, q, net>>
        /\ RaceFrame

\* rb->tail = (rb->tail + 1) % rb->capacity; the write of rb->tail
AddWriteTail ==
    \E t \in Threads :
        /\ thr[t].pc = "wrtail"
        /\ tail' = SizeT(thr[t].tmp + 1) % capacity
        /\ thr' = [thr EXCEPT ![t].pc = "rdcount"]
        /\ UNCHANGED <<head, count, mem, q, net>>
        /\ RaceFrame

\* rb->count += 1; / rb->count -= 1; the read of rb->count
ReadCount ==
    \E t \in Threads :
        /\ thr[t].pc = "rdcount"
        /\ thr' = [thr EXCEPT ![t].pc = "wrcount", ![t].tmp = count]
        /\ UNCHANGED <<head, tail, count, mem, q, net>>
        /\ RaceFrame

\* rb->count += 1; the write of rb->count, then return 0
AddWriteCount ==
    \E t \in Threads :
        /\ thr[t].pc = "wrcount" /\ thr[t].kind = "add"
        /\ count' = SizeT(thr[t].tmp + 1)
        /\ net' = net + 1
        /\ q' = Append(q, thr[t].src)
        /\ thr' = [thr EXCEPT ![t] = Return(t)]
        /\ UNCHANGED <<head, tail, mem>>
        /\ RaceFrame

\* if (ringbuf_empty(rb)) return -1;
RemoveEmpty ==
    \E t \in Threads :
        /\ thr[t].pc = "empty"
        /\ thr' = IF 0 = count THEN [thr EXCEPT ![t] = Return(t)]
                  ELSE [thr EXCEPT ![t].pc = "hp"]
        /\ UNCHANGED <<head, tail, count, mem, q, net>>
        /\ RaceFrame

\* hp = (char *)rb->buf + (rb->elem_sz * rb->head);
RemoveHp ==
    \E t \in Threads :
        /\ thr[t].pc = "hp"
        /\ thr' = [thr EXCEPT ![t].pc = "take", ![t].loc = elem_sz * head]
        /\ UNCHANGED <<head, tail, count, mem, q, net>>
        /\ RaceFrame

\* memcpy(elem, hp, rb->elem_sz);
RemoveTake ==
    \E t \in Threads :
        /\ thr[t].pc = "take"
        /\ thr' = [thr EXCEPT ![t].pc = "zero",
                              ![t].dst = ReadBytes(mem, thr[t].loc, elem_sz)]
        /\ UNCHANGED <<head, tail, count, mem, q, net>>
        /\ RaceFrame

\* memset(hp, 0, rb->elem_sz);
RemoveZero ==
    \E t \in Threads :
        /\ thr[t].pc = "zero"
        /\ mem' = WriteBytes(mem, thr[t].loc, Zeros(elem_sz))
        /\ thr' = [thr EXCEPT ![t].pc = "rdhead"]
        /\ UNCHANGED <<head, tail, count, q, net>>
        /\ RaceFrame

\* rb->head = (rb->head + 1) % rb->capacity; the read of rb->head
RemoveReadHead ==
    \E t \in Threads :
        /\ thr[t].pc = "rdhead"
        /\ thr' = [thr EXCEPT ![t].pc = "wrhead", ![t].tmp = head]
        /\ UNCHANGED <<head, tail, count, mem, q, net>>
        /\ RaceFrame

\* rb->head = (rb->head + 1) % rb->capacity; the write of rb->head
RemoveWriteHead ==
    \E t \in Threads :
        /\ thr[t].pc = "wrhead"
        /\ head' = SizeT(thr[t].tmp + 1) % capacity
        /\ thr' = [thr EXCEPT ![t].pc = "rdcount"]
        /\ UNCHANGED <<tail, count, mem, q, net>>
        /\ RaceFrame

\* rb->count -= 1; the write of rb->count, then return 0
RemoveWriteCount ==
    \E t \in Threads :
        /\ thr[t].pc = "wrcount" /\ thr[t].kind = "remove"
        /\ count' = SizeT(thr[t].tmp - 1)
        /\ net' = net - 1
        /\ q' = IF q = <<>> THEN q ELSE Tail(q)
        /\ thr' = [thr EXCEPT ![t] = Return(t)]
        /\ UNCHANGED <<head, tail, mem>>
        /\ RaceFrame

\* A buffer of at least one slot of one byte (a char buffer, as in
\* test_queue_char) over zeroed storage, just initialised; the callers
\* serialize or do not.
RaceInit ==
    /\ \E g \in Geometry : g[1] >= 1 /\ g[2] = 1 /\ Fresh(g)
    /\ mem = [a \in 0..(MemSize - 1) |-> 0]
    /\ pc = "free"
    /\ run = NoRun
    /\ thr = [t \in Threads |-> Returned(MaxCalls)]
    /\ net = 0
    /\ serial \in BOOLEAN
    /\ reinit = FALSE

RaceNext ==
    \/ Enter
    \/ AddFull
    \/ AddTp
    \/ AddCopy
    \/ AddReadTail
    \/ AddWriteTail
    \/ ReadCount
    \/ AddWriteCount
    \/ RemoveEmpty
    \/ RemoveHp
    \/ RemoveTake
    \/ RemoveZero
    \/ RemoveReadHead
    \/ RemoveWriteHead
    \/ RemoveWriteCount

SpecRace == RaceInit /\ [][RaceNext]_vars

\* ---------------------------------------------------------- zeroed storage
\* The caller zeroes the storage array before ringbuf_init, as
\* test_queue_my_struct does (memset(buf, 0, sizeof(buf))), then uses the
\* buffer, and may call ringbuf_init on it again.

\* memset(buf, 0, sizeof(buf)); ringbuf_init(&rb, buf, n_elem, elem_sz);
ZeroedInit ==
    /\ Init
    /\ mem = [a \in 0..(MemSize - 1) |-> 0]

\* ringbuf_init(&rb, buf, n_elem, elem_sz) again, on the buffer in use
ReinitCall ==
    /\ InitCall /\ SameCall
    /\ reinit' = (reinit \/ ret' = 0)
    /\ UNCHANGED <<run, raceVars>>

ZeroedNext ==
    \/ ReinitCall
    \/ SetOps /\ SameCall /\ Idle
    \/ AddCall /\ SameCall /\ Idle
    \/ RemoveCall /\ SameCall /\ Idle

SpecZeroed == ZeroedInit /\ [][ZeroedNext]_vars

\* ------------------------------------------------------------------ claims

\* Slot k of the buffer, as an element.
Slot(k) == ReadBytes(mem, elem_sz * k, elem_sz)

\* The storage holds a non-zero byte somewhere.
MemDirty == \E a \in DOMAIN mem : mem[a] # 0

\* C1: in every reachable state 0 <= count <= capacity: count never exceeds
\* the capacity and is never decremented below 0 (which, count being
\* unsigned, would wrap to a huge value).
C1_CountInRange == count >= 0 /\ count <= capacity

\* C1's case: a full buffer of several elements has just refused an add.
C1_Witness ==
    /\ op = "ringbuf_add_tail" /\ args[2] # NULL /\ ret = -1
    /\ count = capacity /\ capacity >= 2

\* C2: FIFO order.  Every successful add_tail of a non-NULL element appends
\* the caller's element to the accepted elements (as the copy step stores it:
\* the very bytes when no callback is installed), and every successful
\* remove_head takes the oldest element accepted and not yet removed: the slot
\* at head holds it, and a supplied destination receives it (through the copy
\* callback when one is installed, byte for byte otherwise).  Hence the k-th
\* successful removal returns the k-th accepted element, none skipped,
\* duplicated or reordered.
C2_Fifo ==
    [][/\ (op' = "ringbuf_add_tail" /\ ret' = 0 /\ args'[2] # NULL) =>
            /\ Len(q') = Len(q) + 1
            /\ SubSeq(q', 1, Len(q)) = q
            /\ elem_copy = NULL => q'[Len(q')] = my_elem'
       /\ (op' = "ringbuf_remove_head" /\ ret' = 0) =>
            /\ q # <<>>
            /\ Slot(head) = Head(q)
            /\ q' = Tail(q)
            /\ args'[2] # NULL => my_elem' = CopyElem(my_elem, Head(q))
            /\ (args'[2] # NULL /\ elem_copy = NULL) => my_elem' = Head(q)]_vars

\* C2's case: a removal delivered an element that differs from the next one
\* in line, out of a buffer whose occupied region wraps around the array end.
C2_Witness ==
    /\ op = "ringbuf_remove_head" /\ ret = 0 /\ args[2] # NULL
    /\ elem_copy = NULL
    /\ q # <<>> /\ my_elem # Head(q)
    /\ tail < head

\* C3 as claimed: whenever the buffer is full, add_tail returns -1 and leaves
\* count, head, tail and the storage unchanged.
C3_Original ==
    [][(op' = "ringbuf_add_tail" /\ count = capacity) =>
        (ret' = -1 /\ UNCHANGED <<count, head, tail, mem>>)]_vars

\* C3 as amended: whenever the buffer is full, add_tail of a non-NULL element
\* returns -1 and leaves count, head, tail and the storage unchanged.
C3_FullRejects ==
    [][(op' = "ringbuf_add_tail" /\ count = capacity /\ args'[2] # NULL) =>
        (ret' = -1 /\ UNCHANGED <<count, head, tail, mem>>)]_vars

\* C3's case: an add of a non-NULL element was refused by a full buffer that
\* holds data.
C3_Witness ==
    /\ op = "ringbuf_add_tail" /\ args[2] # NULL /\ ret = -1
    /\ count = capacity /\ capacity >= 1 /\ elem_sz >= 1 /\ MemDirty

\* C4: whenever the buffer is empty, remove_head returns -1 and leaves the
\* whole state unchanged: every field of the struct, every byte of the
\* storage (no zero-fill) and the caller's destination, with or without a
\* destination.
C4_EmptyRejects ==
    [][(op' = "ringbuf_remove_head" /\ count = 0) =>
        (ret' = -1 /\ UNCHANGED <<rbFields, mem, my_elem, q>> /\ ncopy' = 0)]_vars

\* C4's case: a removal with a destination was refused by an empty buffer of
\* capacity >= 1 whose storage and destination hold data.
C4_Witness ==
    /\ op = "ringbuf_remove_head" /\ args[2] # NULL /\ ret = -1
    /\ count = 0 /\ capacity >= 1 /\ elem_sz >= 1
    /\ MemDirty /\ my_elem # Zeros(elem_sz)

\* The values (head + count) mod capacity can take: the remainder, or, for a
\* capacity of 0, whatever the undefined modulo by zero produces.
HeadPlusCountModCapacity ==
    IF capacity = 0 THEN 0..MaxCap ELSE {(head + count) % capacity}

\* The occupied slots are the count slots from head on, modulo the capacity:
\* they hold the accepted and not yet removed elements, oldest first.
OccupiedFromHead ==
    /\ Len(q) = count
    /\ \A k \in 1..count : Slot((head + (k - 1)) % capacity) = q[k]

\* C5 as claimed: in every reachable state tail = (head + count) mod capacity
\* and the occupied slots are the count indices from head on.
C5_Original ==
    /\ \A r \in HeadPlusCountModCapacity : tail = r
    /\ OccupiedFromHead

\* C5 as amended: in every reachable state of a buffer of capacity >= 1,
\* tail = (head + count) mod capacity and the occupied slots are the count
\* indices from head on.
C5_TailIsHeadPlusCount ==
    capacity >= 1 =>
        /\ tail = (head + count) % capacity
        /\ OccupiedFromHead

\* C5's case: the occupied region wraps around the end of the array.
C5_Witness ==
    /\ op = "ringbuf_add_tail" /\ ret = 0 /\ args[2] # NULL
    /\ capacity >= 3 /\ count = 2 /\ head = capacity - 1 /\ tail = 1

\* C6 as claimed: in every reachable state, for every capacity ringbuf_init
\* accepts, 0 <= head < capacity and 0 <= tail < capacity.
C6_Original ==
    /\ 0 <= head /\ head < capacity
    /\ 0 <= tail /\ tail < capacity

\* C6 as amended: in every reachable state of a buffer of capacity >= 1,
\* 0 <= head < capacity and 0 <= tail < capacity, also while it is empty.
C6_IndicesValid ==
    capacity >= 1 =>
        /\ 0 <= head /\ head < capacity
        /\ 0 <= tail /\ tail < capacity

\* C6's case: an empty buffer whose indices have moved to the last slot.
C6_Witness ==
    /\ op = "ringbuf_remove_head" /\ ret = 0
    /\ count = 0 /\ capacity >= 2 /\ head = capacity - 1 /\ tail = capacity - 1

\* C7: ringbuf_full returns true (1) iff count = capacity, ringbuf_empty
\* returns true (1) iff count = 0; they are never both true when capacity > 0
\* and are both true when capacity = 0.
C7_FullEmpty ==
    /\ ringbuf_full \in {0, 1} /\ ringbuf_empty \in {0, 1}
    /\ ringbuf_full = 1 <=> count = capacity
    /\ ringbuf_empty = 1 <=> count = 0
    /\ capacity > 0 => ~(ringbuf_full = 1 /\ ringbuf_empty = 1)
    /\ capacity = 0 => (ringbuf_full = 1 /\ ringbuf_empty = 1)
    /\ op = "ringbuf_full" => (ret = 1 <=> count = capacity)
    /\ op = "ringbuf_empty" => (ret = 1 <=> count = 0)

\* C7's case: a buffer of capacity 0 was asked whether it is empty, and is
\* full as well.
C7_Witness ==
    /\ op = "ringbuf_empty" /\ ret = 1
    /\ capacity = 0 /\ ringbuf_full = 1

\* C8: ringbuf_init returns -1 when buf is NULL (or rb is) and then writes
\* nothing; with a non-NULL buf (and rb) it returns 0 for every capacity and
\* element size, 0 included, and whatever the struct held before leaves
\* head = tail = count = 0, capacity and elem_sz set to the arguments, buf set
\* and both callbacks NULL, without changing a byte of the storage.
C8_Init ==
    [][op' = "ringbuf_init" =>
        IF args'[1] = NULL \/ args'[2] = NULL
        THEN ret' = -1 /\ UNCHANGED <<rbFields, mem>>
        ELSE /\ ret' = 0
             /\ head' = 0 /\ tail' = 0 /\ count' = 0
             /\ buf' = args'[2]
             /\ capacity' = args'[3]
             /\ elem_sz' = args'[4]
             /\ elem_copy' = NULL /\ elem_print' = NULL
             /\ mem' = mem]_vars

\* C8's case: a struct that has been in use (its storage and the caller's
\* element hold data) was initialized again, with capacity 0.
C8_Witness ==
    /\ op = "ringbuf_init" /\ ret = 0
    /\ capacity = 0 /\ elem_sz >= 1
    /\ MemDirty /\ my_elem # Zeros(elem_sz)

\* C9: add_tail with a NULL element returns 0 and changes nothing: count,
\* head, tail and every slot are unchanged and the copy callback is not
\* invoked, in every reachable state, a full buffer included.
C9_NullAddNoop ==
    [][(op' = "ringbuf_add_tail" /\ args'[2] = NULL) =>
        /\ ret' = 0
        /\ UNCHANGED <<rbFields, mem, my_elem, q>>
        /\ ncopy' = 0]_vars

\* C9's case: add_tail(NULL) on a full buffer with the copy callback installed.
C9_Witness ==
    /\ op = "ringbuf_add_tail" /\ args[2] = NULL /\ ret = 0
    /\ count = capacity /\ capacity >= 1 /\ elem_copy # NULL

\* C10: the fill-then-wrap scenario, for every capacity N >= 1.  No assert of
\* the test program fails (N adds succeed, the next fails, the removal
\* succeeds, the add of w succeeds, N removals succeed, the next fails); the
\* first removal yields v1; w is written into slot 0, the contents from head
\* to tail then being v2..vN, w; the N removals yield exactly that sequence.
C10_FillThenWrap ==
    /\ pc # "abort"
    /\ pc = "overfill" => (count = capacity /\ Len(vals) = capacity /\ tail = 0)
    /\ pc = "remove" => (ret = -1 /\ count = capacity /\ Len(vals) = capacity)
    /\ pc = "readd" => (got = <<vals[1]>> /\ count = capacity - 1)
    /\ (pc = "drain" /\ i = 0) =>
          /\ Len(vals) = capacity + 1
          /\ Slot(0) = vals[capacity + 1]
          /\ count = capacity
          /\ ringbuf_print_elems(mem, head, count) = Tail(vals)
    /\ pc = "underflow" => (got = vals /\ count = 0)
    /\ pc = "done" => (ret = -1 /\ got = vals /\ count = 0)

\* C10's case: the scenario has run to its end on a buffer of 3 slots, with
\* values that differ from one another.
C10_Witness ==
    /\ pc = "done"
    /\ capacity >= 3
    /\ vals[1] # vals[2] /\ vals[capacity + 1] # vals[1]

\* C11: with a copy callback installed, it is invoked exactly once per
\* successful add_tail (destination the slot at tail, source the caller's
\* element) and once per successful remove_head with a destination
\* (destination the caller's variable, source the slot at head), and not at
\* all by a failed add_tail, a failed remove_head, an add_tail of NULL or a
\* remove_head without destination; what is stored and what is retrieved is
\* the callback's result, not a copy of the bytes.  Without a callback it is
\* never invoked.
C11_CopyHook ==
    [][/\ (op' = "ringbuf_add_tail" /\ elem_copy # NULL) =>
            IF ret' = 0 /\ args'[2] # NULL
            THEN /\ ncopy' = 1
                 /\ mem' = WriteBytes(mem, elem_sz * tail,
                                      copy_my_struct(Slot(tail), my_elem'))
            ELSE ncopy' = 0 /\ mem' = mem
       /\ (op' = "ringbuf_remove_head" /\ elem_copy # NULL) =>
            IF ret' = 0 /\ args'[2] # NULL
            THEN /\ ncopy' = 1
                 /\ my_elem' = copy_my_struct(my_elem, Slot(head))
            ELSE ncopy' = 0 /\ my_elem' = my_elem
       /\ elem_copy = NULL => ncopy' = 0
       /\ op' \notin {"ringbuf_add_tail", "ringbuf_remove_head"} => ncopy' = 0]_vars

\* C11's case: the callback stored an element whose bytes differ from the
\* caller's (the name was cut), and was invoked once.
C11_Witness ==
    /\ op = "ringbuf_add_tail" /\ ret = 0 /\ args[2] # NULL
    /\ elem_copy # NULL /\ ncopy = 1
    /\ capacity >= 2 /\ tail >= 1
    /\ Slot(tail - 1) # my_elem

\* C12: the print callback only observes.  After every call, the buffer
\* (with the callback installed or not) and the second buffer, identically
\* initialised, given the same calls and never given a print callback, agree
\* on the call's result, on the caller's element variable (so on every
\* element delivered) and on head, tail, count and every byte of storage.
C12_PrintObserves ==
    /\ rb2.ret = ret
    /\ rb2.my_elem = my_elem
    /\ rb2.head = head
    /\ rb2.tail = tail
    /\ rb2.count = count
    /\ rb2.mem = mem
    /\ rb2.capacity = capacity
    /\ rb2.elem_sz = elem_sz
    /\ rb2.elem_copy = elem_copy

\* C12's case: a remove into a destination on a buffer with the print
\* callback installed has printed the removed element and a remaining one.
C12_Witness ==
    /\ elem_print # NULL
    /\ op = "ringbuf_remove_head" /\ ret = 0 /\ args[2] # NULL
    /\ Len(out) >= 2
    /\ count >= 1
    /\ rb2.ret = 0 /\ rb2.my_elem = my_elem /\ rb2.mem = mem

\* C13: ringbuf_full and ringbuf_empty have no side effect: a call leaves
\* every field of the buffer, every byte of storage and the caller's element
\* unchanged, returns 0 or 1, and a call repeated right after itself returns
\* what it returned before.
C13_QueriesPure ==
    [][op' \in {"ringbuf_full", "ringbuf_empty"} =>
         /\ UNCHANGED <<rbFields, mem, my_elem>>
         /\ ret' \in {0, 1}
         /\ (op = op' => ret' = ret)]_vars

\* C13's case: ringbuf_full has answered 1 on a full buffer holding data.
C13_Witness ==
    /\ op = "ringbuf_full" /\ ret = 1
    /\ capacity >= 2 /\ count = capacity
    /\ MemDirty

\* C14: a successful add_tail of an element changes, in storage, only the
\* slot at the pre-call tail, which receives the element (through the copy
\* callback when one is installed); tail becomes (tail + 1) mod capacity and
\* count grows by 1; head, capacity, elem_sz, buf, both callbacks and every
\* other slot are unchanged.
C14_AddFrame ==
    [][(op' = "ringbuf_add_tail" /\ ret' = 0 /\ args'[2] # NULL) =>
         /\ mem' = WriteBytes(mem, elem_sz * tail, CopyElem(Slot(tail), my_elem'))
         /\ \A k \in 0..(capacity - 1) :
              k # tail => ReadBytes(mem', elem_sz * k, elem_sz) = Slot(k)
         /\ tail' = (tail + 1) % capacity
         /\ count' = count + 1
         /\ UNCHANGED <<head, capacity, elem_sz, buf, elem_copy, elem_print>>]_vars

\* C14's case: an add has succeeded into the last slot of a buffer whose head
\* is elsewhere, and tail has wrapped to 0.
C14_Witness ==
    /\ op = "ringbuf_add_tail" /\ ret = 0 /\ args[2] # NULL
    /\ tail = 0 /\ head # 0 /\ count >= 1
    /\ Slot(capacity - 1) # Zeros(elem_sz)

\* C15: a successful remove_head copies the slot at the pre-call head into
\* the destination when there is one (through the copy callback when one is
\* installed) and leaves the caller's variable alone when there is none;
\* either way it zero-fills that slot, head becomes (head + 1) mod capacity,
\* count shrinks by 1, and tail, capacity, elem_sz, buf, the callbacks and
\* every other slot are unchanged: the buffer after the call is the same
\* function of the buffer before it with and without a destination.
C15_RemoveFrame ==
    [][(op' = "ringbuf_remove_head" /\ ret' = 0) =>
         /\ my_elem' = IF args'[2] # NULL THEN CopyElem(my_elem, Slot(head))
                       ELSE my_elem
         /\ mem' = WriteBytes(mem, elem_sz * head, Zeros(elem_sz))
         /\ head' = (head + 1) % capacity
         /\ count' = count - 1
         /\ UNCHANGED <<tail, capacity, elem_sz, buf, elem_copy, elem_print>>]_vars

\* C15's case: a remove without destination has succeeded on a slot that
\* held data, leaving it zeroed and another element in the buffer.
C15_Witness ==
    /\ op = "ringbuf_remove_head" /\ ret = 0 /\ args[2] = NULL
    /\ count >= 1 /\ head >= 1
    /\ Slot(head - 1) = Zeros(elem_sz)
    /\ Slot(head) # Zeros(elem_sz)
    /\ my_elem # Zeros(elem_sz)

\* C16: acceptance depends on the occupancy alone.  In a run of consecutive
\* adds of elements started at count k (wherever head and tail are), call
\* number n succeeds exactly when n <= capacity - k, so capacity - k calls
\* succeed and the next fails with -1 on a full buffer; in a run of
\* consecutive removes started at count k, call number n succeeds exactly
\* when n <= k, so k calls succeed, the last leaving the buffer empty, and
\* the next fails with -1.
C16_Occupancy ==
    /\ run.kind = "add" =>
         /\ ret \in {0, -1}
         /\ (ret = 0) = (run.n <= capacity - run.k)
         /\ ret = 0 => count = run.k + run.n
         /\ ret = -1 => count = capacity /\ run.n = capacity - run.k + 1
    /\ run.kind = "remove" =>
         /\ ret \in {0, -1}
         /\ (ret = 0) = (run.n <= run.k)
         /\ ret = 0 => count = run.k - run.n
         /\ ret = -1 => count = 0 /\ run.n = run.k + 1

\* C16's case: a run of adds started at count 1 with head and tail away from
\* slot 0 has been refused at its call number capacity.
C16_Witness ==
    /\ run.kind = "add" /\ run.k = 1 /\ capacity >= 2
    /\ run.n = capacity /\ ret = -1
    /\ head # 0 /\ tail = head

\* C17: the buffer refines a bounded FIFO sequence q run side by side with
\* it.  An add of an element e appends e (as the copy step stores it) and
\* returns 0 when Len(q) < capacity, and otherwise fails with -1 leaving q; a
\* remove returns 0, hands Head(q) to the destination (through the copy step)
\* and drops it when q is not empty, and otherwise fails with -1; an add of
\* NULL, ringbuf_full and ringbuf_empty leave q, the latter two answering
\* Len(q) = capacity and Len(q) = 0; a successful ringbuf_init empties q.
\* In every state count = Len(q) and, for every i in 0..count-1, the slot at
\* index (head + i) mod capacity holds q[i+1].
C17_RefinesFifo ==
    /\ [](/\ count = Len(q)
          /\ \A j \in 0..(count - 1) : Slot((head + j) % capacity) = q[j + 1])
    /\ [][/\ (op' = "ringbuf_add_tail" /\ args'[2] # NULL) =>
               IF Len(q) < capacity
               THEN /\ ret' = 0
                    /\ q' = Append(q, CopyElem(Slot(tail), my_elem'))
                    /\ elem_copy = NULL => q' = Append(q, my_elem')
               ELSE ret' = -1 /\ q' = q
          /\ (op' = "ringbuf_add_tail" /\ args'[2] = NULL) =>
               ret' = 0 /\ q' = q
          /\ op' = "ringbuf_remove_head" =>
               IF q # <<>>
               THEN /\ ret' = 0
                    /\ q' = Tail(q)
                    /\ args'[2] # NULL => my_elem' = CopyElem(my_elem, Head(q))
                    /\ (args'[2] # NULL /\ elem_copy = NULL) => my_elem' = Head(q)
               ELSE ret' = -1 /\ q' = q
          /\ op' = "ringbuf_full" =>
               q' = q /\ ret' = (IF Len(q) = capacity THEN 1 ELSE 0)
          /\ op' = "ringbuf_empty" =>
               q' = q /\ ret' = (IF Len(q) = 0 THEN 1 ELSE 0)
          /\ op' = "ringbuf_init" =>
               q' = (IF ret' = 0 THEN <<>> ELSE q)
          /\ op' = "set_ops" => q' = q]_vars

\* C17's case: a remove has handed over the head of a sequence of distinct
\* elements, and the remaining two lie across the end of the array.
C17_Witness ==
    /\ op = "ringbuf_remove_head" /\ ret = 0 /\ args[2] # NULL
    /\ elem_copy = NULL
    /\ Len(q) = 2 /\ count = 2 /\ head = capacity - 1 /\ tail = 1
    /\ q[1] # q[2] /\ my_elem # q[1]
    /\ Slot(head) = q[1] /\ Slot(0) = q[2]

\* No call is in progress on any thread.
Quiescent == \A t \in Threads : thr[t].pc = "idle"

\* What holds of a buffer between the calls of a single caller: count is the
\* successful adds minus the successful removes and within the capacity, tail
\* is (head + count) mod capacity, and the count slots from head on hold the
\* elements added and not yet removed, in order.
Sequential ==
    /\ count = net
    /\ count <= capacity
    /\ tail = (head + count) % capacity
    /\ Len(q) = count
    /\ \A k \in 1..Len(q) : Slot((head + (k - 1)) % capacity) = q[k]

\* C18: calls from two threads made of unsynchronized reads and writes can
\* interleave so as to leave the buffer, all calls returned, in a state no
\* single caller can produce (count off the successful adds minus removes,
\* tail # (head + count) mod capacity, an element overwritten or lost): that
\* state is C18_Witness.  When the callers serialize their calls, every
\* interleaving leaves the buffer, between calls, as a single caller would.
C18_SerializedSafe == (serial /\ Quiescent) => Sequential

\* C18's case: without serialization, both threads have returned from their
\* calls, and count is not the successful adds minus the successful removes
\* (an update of count was lost) nor is tail at (head + count) mod capacity.
C18_Witness ==
    /\ ~serial /\ Quiescent
    /\ count # net
    /\ tail # (head + count) % capacity

\* The slots outside the occupied region: the capacity - count slots from
\* tail on, modulo the capacity.  All of them hold zero bytes.
FreeSlotsZero ==
    \A j \in 0..(capacity - count - 1) :
        Slot((tail + j) % capacity) = Zeros(elem_sz)

\* C19: over storage that was all zero when the buffer was initialised, and
\* as long as ringbuf_init is not called on it again, every slot outside the
\* occupied region holds zero bytes in every reachable state (remove_head
\* zero-fills the slot it vacates).  ringbuf_init itself never writes the
\* storage, so calling it again on a buffer that holds elements leaves their
\* bytes in slots that are now free: that state is C19_Witness.
C19_FreeSlotsZero ==
    /\ [](~reinit => FreeSlotsZero)
    /\ [][op' = "ringbuf_init" => mem' = mem]_vars

\* C19's case: ringbuf_init has just succeeded again on a buffer that held an
\* element; the buffer is empty and a slot within its capacity is not zero.
C19_Witness ==
    /\ reinit /\ op = "ringbuf_init" /\ ret = 0
    /\ count = 0 /\ capacity >= 1
    /\ ~FreeSlotsZero

\* C20: a buffer of capacity 0 is both full and empty; every add of an
\* element on it has failed with -1 and every remove has failed with -1, head,
\* tail and count are 0, and no call ever executes the modulo by zero of the
\* index updates.
C20_ZeroCapacity ==
    /\ ~trap
    /\ capacity = 0 =>
         /\ ringbuf_full = 1 /\ ringbuf_empty = 1
         /\ head = 0 /\ tail = 0 /\ count = 0
         /\ (op = "ringbuf_add_tail" /\ args[2] # NULL) => ret = -1
         /\ op = "ringbuf_remove_head" => ret = -1
         /\ op = "ringbuf_full" => ret = 1
         /\ op = "ringbuf_empty" => ret = 1

\* C20's case: ringbuf_init accepted a capacity of 0 and an add of an element
\* has been refused.
C20_Witness ==
    /\ capacity = 0
    /\ op = "ringbuf_add_tail" /\ args[2] # NULL /\ ret = -1
    /\ rb2.capacity = 0 /\ rb2.ret = -1

=============================================================================
